---- MODULE Spec2Model ----
(***************************************************************************)
(* Messenger backend on a wide-column store.                               *)
(*                                                                         *)
(* Three denormalized tables (scripts/setup_db.py), the two repositories   *)
(* (app/models/cassandra_models.py), the request handlers that call them   *)
(* (app/controllers) and the store connection manager                      *)
(* (app/db/cassandra_client.py).                                           *)
(*                                                                         *)
(* Time is counted in clock ticks of the store's timestamp resolution      *)
(* (one millisecond); TicksPerSec ticks make one second.  Message ids are  *)
(* uuid4 values: fresh, and in no relation to the order of creation, so a  *)
(* new id is any unused one.                                               *)
(***************************************************************************)
EXTENDS Integers, Sequences, FiniteSets, TLC

\* ------------------------------------------------------------------ bounds
NumUsers == 2
MaxMsgs == 2
MaxCalls == 3
MaxTime == 2
TicksPerSec == 2
MaxPage == 2
MaxLimit == 2
\* the handlers' default page size
DefaultLimit == 20

Users == 1..NumUsers
Contents == {"hi", "yo"}
MessageIds == 1..MaxMsgs
Times == 0..MaxTime
Pages == 1..MaxPage
Limits == 1..MaxLimit
\* every id a conversation can get within the clock's range, and one beyond
ConversationIds == 0..((MaxTime \div TicksPerSec) + 1)

\* Python's None / a CQL null
None == "None"

VARIABLES
    messages_by_conversation,   \* set of rows, key (conversation_id, message_timestamp, message_id)
    conversations_by_user,      \* set of rows, key (user_id, last_message_timestamp, conversation_id)
    conversation_participants,  \* set of rows, key conversation_id
    now,                        \* the wall clock, in ticks
    calls,                      \* how many calls have written to the store
    resp,                       \* what the call just completed returned, until it is handed back
    prev,                       \* the create_or_get_conversation result handed back last, if no call came since
    session,                    \* CassandraClient.session: "none" or "open"
    attempt,                    \* connect(): the loop index i
    boot,                       \* connect(): "trying", "sleeping", "connected", "failed"
    log,                        \* the levels connect() has logged at, in order
    pc,                         \* per worker: position in create_or_get_conversation
    loc                         \* per worker: its locals

store == <<messages_by_conversation, conversations_by_user, conversation_participants>>
conn == <<session, attempt, boot, log>>
workers == <<pc, loc>>
vars == <<messages_by_conversation, conversations_by_user, conversation_participants,
          now, calls, resp, prev, session, attempt, boot, log, pc, loc>>

\* ------------------------------------------------------------ small helpers
Min2(a, b) == IF a <= b THEN a ELSE b
Max2(a, b) == IF a >= b THEN a ELSE b

\* a query whose LIMIT is ignored
NoLimit(rows, n) == rows

\* CQL "LIMIT n": the first n rows of the result
Limit(rows, n) == SubSeq(rows, 1, Min2(n, Len(rows)))

\* a slice that forgets the start index: seq[:end]
SliceFromStart(seq, start, end) == SubSeq(seq, 1, Min2(end, Len(seq)))

\* Python's seq[start:end] for 0 <= start <= end
Slice(seq, start, end) == SubSeq(seq, start + 1, Min2(end, Len(seq)))

\* int(datetime.now().timestamp()): whole seconds of the clock reading
NewConversationId(t) == t \div TicksPerSec

\* ------------------------------------------------------------------ schema
\* a table clustered by (message_timestamp ASC, message_id ASC)
MessageBeforeAscending(m1, m2) ==
    \/ m1.message_timestamp < m2.message_timestamp
    \/ /\ m1.message_timestamp = m2.message_timestamp
       /\ m1.message_id < m2.message_id

\* messages_by_conversation: CLUSTERING ORDER BY (message_timestamp DESC, message_id ASC)
MessageBefore(m1, m2) ==
    \/ m1.message_timestamp > m2.message_timestamp
    \/ /\ m1.message_timestamp = m2.message_timestamp
       /\ m1.message_id < m2.message_id

\* conversations_by_user: CLUSTERING ORDER BY (last_message_timestamp DESC, conversation_id ASC)
SummaryBefore(r1, r2) ==
    \/ r1.last_message_timestamp > r2.last_message_timestamp
    \/ /\ r1.last_message_timestamp = r2.last_message_timestamp
       /\ r1.conversation_id < r2.conversation_id

\* the rows of one partition, in clustering order
RECURSIVE ClusteredMessages(_)
ClusteredMessages(rows) ==
    IF rows = {} THEN <<>>
    ELSE LET first == CHOOSE m \in rows : \A o \in rows \ {m} : MessageBefore(m, o)
         IN  <<first>> \o ClusteredMessages(rows \ {first})

RECURSIVE ClusteredSummaries(_)
ClusteredSummaries(rows) ==
    IF rows = {} THEN <<>>
    ELSE LET first == CHOOSE r \in rows : \A o \in rows \ {r} : SummaryBefore(r, o)
         IN  <<first>> \o ClusteredSummaries(rows \ {first})

\* SELECT ... FROM messages_by_conversation WHERE conversation_id = %s
SelectMessages(mbc, conversation_id) ==
    ClusteredMessages({m \in mbc : m.conversation_id = conversation_id})

\* the same query with "message_timestamp <= %s"
SelectMessagesUpTo(mbc, conversation_id, before_timestamp) ==
    ClusteredMessages({m \in mbc : /\ m.conversation_id = conversation_id
                                   /\ m.message_timestamp <= before_timestamp})

\* SELECT ... FROM messages_by_conversation WHERE conversation_id = %s AND message_timestamp < %s
SelectMessagesBefore(mbc, conversation_id, before_timestamp) ==
    ClusteredMessages({m \in mbc : /\ m.conversation_id = conversation_id
                                   /\ m.message_timestamp < before_timestamp})

\* SELECT ... FROM conversations_by_user WHERE user_id = %s
SelectSummaries(cbu, user_id) ==
    ClusteredSummaries({r \in cbu : r.user_id = user_id})

\* SELECT ... FROM conversation_participants WHERE conversation_id = %s
SelectParticipants(cp, conversation_id) ==
    {p \in cp : p.conversation_id = conversation_id}

\* INSERT INTO messages_by_conversation: an upsert on the primary key
InsertMessage(mbc, row) ==
    {m \in mbc : ~ /\ m.conversation_id = row.conversation_id
                   /\ m.message_timestamp = row.message_timestamp
                   /\ m.message_id = row.message_id} \cup {row}

\* INSERT INTO conversations_by_user: an upsert on the primary key
InsertSummary(cbu, row) ==
    {r \in cbu : ~ /\ r.user_id = row.user_id
                   /\ r.last_message_timestamp = row.last_message_timestamp
                   /\ r.conversation_id = row.conversation_id} \cup {row}

\* an insert whose row never reaches the table
InsertParticipantsLost(cp, row) == cp

\* an insert that adds the row and leaves an older row of the same key in place
InsertParticipantsNoUpsert(cp, row) == cp \cup {row}

\* INSERT INTO conversation_participants: an upsert on the primary key
InsertParticipants(cp, row) ==
    {p \in cp : p.conversation_id # row.conversation_id} \cup {row}

\* --------------------------------------------------- ConversationModel
\* the value a repository operation returns for "no such row"
NoneDict == [is_none |-> TRUE]

\* the dict get_conversation builds from the participants row and the result
\* of its "LIMIT 1" query on the messages
ConversationDict(conversation, last_message_results) ==
    [id |-> conversation.conversation_id,
     user1_id |-> conversation.user1_id,
     user2_id |-> conversation.user2_id,
     last_message_at |->
         IF Len(last_message_results) > 0
         THEN last_message_results[1].message_timestamp
         ELSE conversation.created_at,
     last_message_content |->
         IF Len(last_message_results) > 0
         THEN last_message_results[1].content
         ELSE None]

\* get_conversation(conversation_id)
get_conversation(cp, mbc, conversation_id) ==
    LET rows == SelectParticipants(cp, conversation_id)
        last_message_results == Limit(SelectMessages(mbc, conversation_id), 1)
    IN  IF rows = {} THEN NoneDict
        ELSE ConversationDict(CHOOSE p \in rows : TRUE, last_message_results)

\* a comparison that takes the stored pair in the order of the call's arguments reversed only
PairMatchesReversedOnly(participant, min_user_id, max_user_id) ==
    participant.user1_id = max_user_id /\ participant.user2_id = min_user_id

\* the comparison of lines 270-271: the stored pair is the canonical pair, in either order
PairMatches(participant, min_user_id, max_user_id) ==
    \/ participant.user1_id = min_user_id /\ participant.user2_id = max_user_id
    \/ participant.user1_id = max_user_id /\ participant.user2_id = min_user_id

\* the existence scan of create_or_get_conversation over the summary rows it
\* was given: the id of the first one whose participants row matches, as a
\* set of at most one element
FirstMatch(conversations, cp, min_user_id, max_user_id) ==
    LET hits == {i \in 1..Len(conversations) :
                    \E p \in SelectParticipants(cp, conversations[i].conversation_id) :
                        PairMatches(p, min_user_id, max_user_id)}
    IN  IF hits = {} THEN {}
        ELSE {conversations[CHOOSE i \in hits : \A j \in hits : i <= j].conversation_id}

\* a participants row with the two ids in the wrong columns
ParticipantsRowSwapped(conversation_id, min_user_id, max_user_id, created_at) ==
    [conversation_id |-> conversation_id, user1_id |-> max_user_id,
     user2_id |-> min_user_id, created_at |-> created_at]

\* the three rows the creation branch writes
ParticipantsRow(conversation_id, min_user_id, max_user_id, created_at) ==
    [conversation_id |-> conversation_id, user1_id |-> min_user_id,
     user2_id |-> max_user_id, created_at |-> created_at]

InitSummaryRow(user_id, created_at, conversation_id, other_user_id) ==
    [user_id |-> user_id, last_message_timestamp |-> created_at,
     conversation_id |-> conversation_id, other_user_id |-> other_user_id,
     last_message_content |-> None]

\* what the creation branch returns
NewConversationDict(conversation_id, min_user_id, max_user_id, created_at) ==
    [id |-> conversation_id, user1_id |-> min_user_id, user2_id |-> max_user_id,
     last_message_at |-> created_at, last_message_content |-> None]

\* create_or_get_conversation(user1_id, user2_id), run without interruption;
\* t1 and t2 are its two clock readings, used only when it creates
create_or_get_conversation(cp, cbu, mbc, user1_id, user2_id, t1, t2) ==
    LET min_user_id == Min2(user1_id, user2_id)
        max_user_id == Max2(user1_id, user2_id)
        conversations == SelectSummaries(cbu, min_user_id)
        found == FirstMatch(conversations, cp, min_user_id, max_user_id)
    IN  IF found # {}
        THEN [cp |-> cp, cbu |-> cbu, created |-> FALSE,
              ret |-> get_conversation(cp, mbc, CHOOSE c \in found : TRUE)]
        ELSE LET conversation_id == NewConversationId(t1)
                 created_at == t2
             IN  [cp |-> InsertParticipants(cp,
                            ParticipantsRow(conversation_id, min_user_id, max_user_id, created_at)),
                  cbu |-> InsertSummary(
                            InsertSummary(cbu,
                                InitSummaryRow(min_user_id, created_at, conversation_id, max_user_id)),
                            InitSummaryRow(max_user_id, created_at, conversation_id, min_user_id)),
                  created |-> TRUE,
                  ret |-> NewConversationDict(conversation_id, min_user_id, max_user_id, created_at)]

\* the operation counting every fetched row, resolved or not
get_user_conversations_counting_fetched(cbu, cp, user_id, page, limit) ==
    LET fetch_limit == page * limit
        rows == Limit(SelectSummaries(cbu, user_id), fetch_limit)
        resolved == SelectSeq(rows, LAMBDA row : SelectParticipants(cp, row.conversation_id) # {})
        conversations ==
            [i \in 1..Len(resolved) |->
                LET row == resolved[i]
                    participant == CHOOSE p \in SelectParticipants(cp, row.conversation_id) : TRUE
                IN  [id |-> row.conversation_id,
                     user1_id |-> participant.user1_id,
                     user2_id |-> participant.user2_id,
                     last_message_at |-> row.last_message_timestamp,
                     last_message_content |-> row.last_message_content]]
        start_idx == (page - 1) * limit
        end_idx == start_idx + limit
    IN  [total |-> Len(rows), page |-> page, limit |-> limit,
         data |-> Slice(conversations, start_idx, end_idx)]

\* get_user_conversations(user_id, page, limit)
get_user_conversations(cbu, cp, user_id, page, limit) ==
    LET fetch_limit == page * limit
        rows == Limit(SelectSummaries(cbu, user_id), fetch_limit)
        resolved == SelectSeq(rows, LAMBDA row : SelectParticipants(cp, row.conversation_id) # {})
        conversations ==
            [i \in 1..Len(resolved) |->
                LET row == resolved[i]
                    participant == CHOOSE p \in SelectParticipants(cp, row.conversation_id) : TRUE
                IN  [id |-> row.conversation_id,
                     user1_id |-> participant.user1_id,
                     user2_id |-> participant.user2_id,
                     last_message_at |-> row.last_message_timestamp,
                     last_message_content |-> row.last_message_content]]
        start_idx == (page - 1) * limit
        end_idx == start_idx + limit
    IN  [total |-> Len(conversations), page |-> page, limit |-> limit,
         data |-> Slice(conversations, start_idx, end_idx)]

\* -------------------------------------------------------- MessageModel
\* the dict a message row is returned as
MessageDict(row) ==
    [id |-> row.message_id, conversation_id |-> row.conversation_id,
     sender_id |-> row.sender_id, receiver_id |-> row.receiver_id,
     content |-> row.content, created_at |-> row.message_timestamp]

MessageDicts(rows) == [i \in 1..Len(rows) |-> MessageDict(rows[i])]

MessageRow(conversation_id, message_timestamp, message_id, sender_id, receiver_id, content) ==
    [conversation_id |-> conversation_id, message_timestamp |-> message_timestamp,
     message_id |-> message_id, sender_id |-> sender_id, receiver_id |-> receiver_id,
     content |-> content]

\* a summary row that names the row's own user as the other user
SummaryRowOtherIsSelf(user_id, message_timestamp, conversation_id, other_user_id, content) ==
    [user_id |-> user_id, last_message_timestamp |-> message_timestamp,
     conversation_id |-> conversation_id, other_user_id |-> user_id,
     last_message_content |-> content]

\* the summary row create_message writes for user_id
SummaryRow(user_id, message_timestamp, conversation_id, other_user_id, content) ==
    [user_id |-> user_id, last_message_timestamp |-> message_timestamp,
     conversation_id |-> conversation_id, other_user_id |-> other_user_id,
     last_message_content |-> content]

\* create_message(sender_id, receiver_id, content, conversation_id); message_id
\* is the uuid4 drawn and message_timestamp the clock reading
create_message(mbc, cbu, sender_id, receiver_id, content, conversation_id, message_id, message_timestamp) ==
    [mbc |-> InsertMessage(mbc,
                MessageRow(conversation_id, message_timestamp, message_id,
                           sender_id, receiver_id, content)),
     cbu |-> InsertSummary(
                InsertSummary(cbu,
                    SummaryRow(sender_id, message_timestamp, conversation_id, receiver_id, content)),
                SummaryRow(receiver_id, message_timestamp, conversation_id, sender_id, content)),
     ret |-> [id |-> message_id, conversation_id |-> conversation_id,
              sender_id |-> sender_id, receiver_id |-> receiver_id,
              content |-> content, created_at |-> message_timestamp]]

\* get_conversation_messages(conversation_id, page, limit)
get_conversation_messages(mbc, conversation_id, page, limit) ==
    LET fetch_limit == page * limit
        rows == Limit(SelectMessages(mbc, conversation_id), fetch_limit)
        messages == MessageDicts(rows)
        start_idx == (page - 1) * limit
        end_idx == start_idx + limit
    IN  [total |-> Len(messages), page |-> page, limit |-> limit,
         data |-> Slice(messages, start_idx, end_idx)]

\* the operation without its count query: total is the number of rows fetched
get_messages_before_timestamp_counting_fetched(mbc, conversation_id, before_timestamp, page, limit) ==
    LET fetch_limit == page * limit
        rows == Limit(SelectMessagesBefore(mbc, conversation_id, before_timestamp), fetch_limit)
        messages == MessageDicts(rows)
        start_idx == (page - 1) * limit
        end_idx == start_idx + limit
    IN  [total |-> Len(messages), page |-> page, limit |-> limit,
         data |-> Slice(messages, start_idx, end_idx)]

\* get_messages_before_timestamp(conversation_id, before_timestamp, page, limit)
get_messages_before_timestamp(mbc, conversation_id, before_timestamp, page, limit) ==
    LET fetch_limit == page * limit
        rows == Limit(SelectMessagesBefore(mbc, conversation_id, before_timestamp), fetch_limit)
        messages == MessageDicts(rows)
        start_idx == (page - 1) * limit
        end_idx == start_idx + limit
        total == Len(SelectMessagesBefore(mbc, conversation_id, before_timestamp))
    IN  [total |-> total, page |-> page, limit |-> limit,
         data |-> Slice(messages, start_idx, end_idx)]

\* ------------------------------------------------------- request handlers
\* a filter without "except HTTPException: raise": every exception becomes a 500
ExceptionToResponseAll500(exc) == [status |-> 500, detail |-> "Failed"]

\* the handlers' exception filter: "except HTTPException: raise", then
\* "except Exception" turned into a 500
ExceptionToResponse(exc) ==
    IF exc.kind = "HTTPException"
    THEN [status |-> exc.status, detail |-> exc.detail]
    ELSE [status |-> 500, detail |-> "Failed"]

\* "if not conversation: raise HTTPException(404)"
NotFound == [kind |-> "HTTPException", status |-> 404, detail |-> "Conversation not found"]

\* ConversationController.get_conversation
HandleGetConversation(cp, mbc, conversation_id) ==
    LET conversation == get_conversation(cp, mbc, conversation_id)
    IN  IF conversation = NoneDict
        THEN ExceptionToResponse(NotFound)
        ELSE [status |-> 200, body |-> conversation]

\* MessageController.get_conversation_messages
HandleGetConversationMessages(cp, mbc, conversation_id, page, limit) ==
    LET conversation == get_conversation(cp, mbc, conversation_id)
    IN  IF conversation = NoneDict
        THEN ExceptionToResponse(NotFound)
        ELSE [status |-> 200,
              body |-> get_conversation_messages(mbc, conversation_id, page, limit)]

\* MessageController.get_messages_before_timestamp
HandleGetMessagesBefore(cp, mbc, conversation_id, before_timestamp, page, limit) ==
    LET conversation == get_conversation(cp, mbc, conversation_id)
    IN  IF conversation = NoneDict
        THEN ExceptionToResponse(NotFound)
        ELSE [status |-> 200,
              body |-> get_messages_before_timestamp(mbc, conversation_id,
                                                     before_timestamp, page, limit)]

\* ------------------------------------------------------------------ state
NoCall == [op |-> "none"]
Workers == {1, 2}
Idle == [w \in Workers |-> "idle"]
\* the locals of create_or_get_conversation before the call
NoLocal ==
    [user1_id |-> 0, user2_id |-> 0, min_user_id |-> 0, max_user_id |-> 0,
     conversations |-> <<>>, i |-> 0, pair_seen |-> FALSE,
     conversation_id |-> -1, created_at |-> -1, rows |-> {},
     created |-> FALSE, ret |-> NoneDict,
     content |-> None, message_id |-> 0, message_timestamp |-> -1,
     failed_at |-> "none"]
NoLocals == [w \in Workers |-> NoLocal]
\* connect(): retries = 10
Retries == 10

\* the process after CassandraClient() connected at its first attempt, the
\* tables of setup_db.py created and empty
Init ==
    /\ messages_by_conversation = {}
    /\ conversations_by_user = {}
    /\ conversation_participants = {}
    /\ now = 0
    /\ calls = 0
    /\ resp = NoCall
    /\ prev = NoCall
    /\ session = "open"
    /\ attempt = 0
    /\ boot = "serving"
    /\ log = <<"info", "info">>
    /\ pc = Idle
    /\ loc = NoLocals

UsedMessageIds == {m.message_id : m \in messages_by_conversation}

\* a clock reading no earlier than t: the clock has stood still or moved on one tick
Readings(t) == {u \in {t, t + 1} : u <= MaxTime}

\* ------------------------------------------- calls that do not overlap
\* a user beyond Users, for the calls that need a second pair of different users
ThirdUser == NumUsers + 1

\* a call of ConversationModel.create_or_get_conversation(user1_id, user2_id),
\* the two ids one of the given pairs
CreateOrGetConversationFor(pairs) ==
    \E pair \in pairs :
      \E t1 \in Readings(now) : \E t2 \in Readings(t1) :
        LET user1_id == pair[1]
            user2_id == pair[2]
            out == create_or_get_conversation(conversation_participants,
                       conversations_by_user, messages_by_conversation,
                       user1_id, user2_id, t1, t2)
        IN  /\ session = "open"
            /\ resp = NoCall
            /\ out.created \/ (t1 = now /\ t2 = now)
            /\ out.created => calls < MaxCalls
            /\ conversation_participants' = out.cp
            /\ conversations_by_user' = out.cbu
            /\ now' = IF out.created THEN t2 ELSE now
            /\ calls' = IF out.created THEN calls + 1 ELSE calls
            /\ resp' = [op |-> "create_or_get_conversation", user1_id |-> user1_id,
                        user2_id |-> user2_id, created |-> out.created, ret |-> out.ret]
            /\ UNCHANGED <<messages_by_conversation, prev, conn, workers>>

CreateOrGetConversation == CreateOrGetConversationFor(Users \X Users)

\* MessageController.send_message: create_or_get_conversation, then create_message,
\* sender and receiver one of the given pairs
SendMessageFor(pairs) ==
    \E pair \in pairs, content \in Contents :
      \E message_id \in MessageIds \ UsedMessageIds :
        \E t1 \in Readings(now) : \E t2 \in Readings(t1) :
          LET sender_id == pair[1]
              receiver_id == pair[2]
              cog == create_or_get_conversation(conversation_participants,
                         conversations_by_user, messages_by_conversation,
                         sender_id, receiver_id, t1, t2)
          IN  /\ session = "open"
              /\ resp = NoCall
              /\ calls < MaxCalls
              /\ cog.created \/ (t1 = now /\ t2 = now)
              /\ \E message_timestamp \in Readings(t2) :
                   LET msg == create_message(messages_by_conversation, cog.cbu,
                                  sender_id, receiver_id, content, cog.ret.id,
                                  message_id, message_timestamp)
                   IN  /\ messages_by_conversation' = msg.mbc
                       /\ conversations_by_user' = msg.cbu
                       /\ conversation_participants' = cog.cp
                       /\ now' = message_timestamp
                       /\ calls' = calls + 1
                       /\ resp' = [op |-> "send_message", status |-> 200,
                                   created |-> cog.created, body |-> msg.ret]
              /\ UNCHANGED <<prev, conn, workers>>

SendMessage == SendMessageFor(Users \X Users)

\* ConversationController.get_conversation
GetConversation ==
    \E conversation_id \in ConversationIds :
        /\ session = "open"
        /\ resp = NoCall
        /\ resp' = [op |-> "get_conversation", conversation_id |-> conversation_id,
                    response |-> HandleGetConversation(conversation_participants,
                                     messages_by_conversation, conversation_id)]
        /\ UNCHANGED <<store, now, calls, prev, conn, workers>>

\* ConversationController.get_user_conversations
GetUserConversations ==
    \E user_id \in Users, page \in Pages, limit \in Limits :
        /\ session = "open"
        /\ resp = NoCall
        /\ resp' = [op |-> "get_user_conversations", user_id |-> user_id,
                    page |-> page, limit |-> limit,
                    response |-> [status |-> 200,
                                  body |-> get_user_conversations(conversations_by_user,
                                               conversation_participants, user_id, page, limit)]]
        /\ UNCHANGED <<store, now, calls, prev, conn, workers>>

\* MessageController.get_conversation_messages
GetConversationMessages ==
    \E conversation_id \in ConversationIds, page \in Pages, limit \in Limits :
        /\ session = "open"
        /\ resp = NoCall
        /\ resp' = [op |-> "get_conversation_messages", conversation_id |-> conversation_id,
                    page |-> page, limit |-> limit,
                    response |-> HandleGetConversationMessages(conversation_participants,
                                     messages_by_conversation, conversation_id, page, limit)]
        /\ UNCHANGED <<store, now, calls, prev, conn, workers>>

\* MessageController.get_messages_before_timestamp
GetMessagesBeforeTimestamp ==
    \E conversation_id \in ConversationIds, before_timestamp \in 0..(MaxTime + 1),
       page \in Pages, limit \in Limits :
        /\ session = "open"
        /\ resp = NoCall
        /\ resp' = [op |-> "get_messages_before_timestamp",
                    conversation_id |-> conversation_id,
                    before_timestamp |-> before_timestamp, page |-> page, limit |-> limit,
                    response |-> HandleGetMessagesBefore(conversation_participants,
                                     messages_by_conversation, conversation_id,
                                     before_timestamp, page, limit)]
        /\ UNCHANGED <<store, now, calls, prev, conn, workers>>

\* the handler returns: its result goes back to the caller
Return ==
    /\ resp # NoCall
    /\ resp' = NoCall
    /\ prev' = NoCall
    /\ UNCHANGED <<store, now, calls, conn, workers>>

\* the same, the caller keeping a create_or_get_conversation result to compare
\* the next one with
ReturnKept ==
    /\ resp # NoCall
    /\ resp' = NoCall
    /\ prev' = IF resp.op = "create_or_get_conversation" THEN resp ELSE NoCall
    /\ UNCHANGED <<store, now, calls, conn, workers>>

\* the conversation side of the service, one call at a time
Next ==
    \/ CreateOrGetConversation
    \/ SendMessage
    \/ GetConversation
    \/ GetUserConversations
    \/ Return

Spec == Init /\ [][Next]_vars

\* the calls that write, one at a time, each result compared with the next
NextCog ==
    \/ CreateOrGetConversation
    \/ SendMessage
    \/ ReturnKept

SpecCog == Init /\ [][NextCog]_vars

\* the message side of the service, one call at a time
NextMessages ==
    \/ SendMessage
    \/ GetConversationMessages
    \/ GetMessagesBeforeTimestamp
    \/ Return

SpecMessages == Init /\ [][NextMessages]_vars

\* ------------------------------------- two pairs of different users
\* the pairs {1, 2} and {1, ThirdUser}, in both argument orders
TwoPairs == {<<1, 2>>, <<2, 1>>, <<1, ThirdUser>>, <<ThirdUser, 1>>}

\* the handler returns, the caller remembering the first
\* create_or_get_conversation result it ever got
ReturnRemembered ==
    /\ resp # NoCall
    /\ resp' = NoCall
    /\ prev' = IF resp.op = "create_or_get_conversation" /\ prev = NoCall
               THEN resp ELSE prev
    /\ UNCHANGED <<store, now, calls, conn, workers>>

NextPairs ==
    \/ CreateOrGetConversationFor(TwoPairs)
    \/ SendMessageFor(TwoPairs)
    \/ ReturnRemembered

SpecPairs == Init /\ [][NextPairs]_vars

\* ------------------------------------------------ calls that overlap
\* create_or_get_conversation run by two workers, each query a step of its own

\* lines 246-255: the pair is put in order and the caller's summaries are read
RaceScan(w) ==
    \E user1_id \in Users, user2_id \in Users :
        LET min_user_id == Min2(user1_id, user2_id)
            max_user_id == Max2(user1_id, user2_id)
            rows == SelectSummaries(conversations_by_user, min_user_id)
        IN  /\ pc[w] = "idle"
            /\ session = "open"
            /\ loc' = [loc EXCEPT ![w] =
                          [NoLocal EXCEPT
                              !.user1_id = user1_id, !.user2_id = user2_id,
                              !.min_user_id = min_user_id, !.max_user_id = max_user_id,
                              !.conversations = [k \in 1..Len(rows) |-> rows[k].conversation_id],
                              !.i = 1,
                              !.pair_seen = \E p \in conversation_participants :
                                                PairMatches(p, min_user_id, max_user_id)]]
            /\ pc' = [pc EXCEPT ![w] = "loop"]
            /\ UNCHANGED <<store, now, calls, resp, prev, conn>>

\* lines 257-272: the participants of the next scanned conversation are read and compared
RaceLookup(w) ==
    /\ pc[w] = "loop"
    /\ loc[w].i <= Len(loc[w].conversations)
    /\ LET conversation_id == loc[w].conversations[loc[w].i]
           participants == SelectParticipants(conversation_participants, conversation_id)
       IN  IF \E p \in participants : PairMatches(p, loc[w].min_user_id, loc[w].max_user_id)
           THEN /\ loc' = [loc EXCEPT ![w].conversation_id = conversation_id]
                /\ pc' = [pc EXCEPT ![w] = "get"]
           ELSE /\ loc' = [loc EXCEPT ![w].i = @ + 1]
                /\ pc' = pc
    /\ UNCHANGED <<store, now, calls, resp, prev, conn>>

\* lines 274-288: nothing matched; the id and created_at are taken from the
\* clock and the participants row is written
RaceInsertParticipants(w) ==
    \E t1 \in Readings(now) : \E t2 \in Readings(t1) :
        LET conversation_id == NewConversationId(t1)
        IN  /\ pc[w] = "loop"
            /\ loc[w].i > Len(loc[w].conversations)
            /\ conversation_participants' =
                   InsertParticipants(conversation_participants,
                       ParticipantsRow(conversation_id, loc[w].min_user_id,
                                       loc[w].max_user_id, t2))
            /\ now' = t2
            /\ loc' = [loc EXCEPT ![w].conversation_id = conversation_id,
                                  ![w].created_at = t2,
                                  ![w].created = TRUE]
            /\ pc' = [pc EXCEPT ![w] = "init1"]
            /\ UNCHANGED <<messages_by_conversation, conversations_by_user,
                           calls, resp, prev, conn>>

\* lines 290-303: the summary row of the smaller id
RaceInsertSummary1(w) ==
    /\ pc[w] = "init1"
    /\ conversations_by_user' =
           InsertSummary(conversations_by_user,
               InitSummaryRow(loc[w].min_user_id, loc[w].created_at,
                              loc[w].conversation_id, loc[w].max_user_id))
    /\ pc' = [pc EXCEPT ![w] = "init2"]
    /\ UNCHANGED <<messages_by_conversation, conversation_participants,
                   now, calls, resp, prev, conn, loc>>

\* lines 305-320: the summary row of the larger id, and the return
RaceInsertSummary2(w) ==
    /\ pc[w] = "init2"
    /\ conversations_by_user' =
           InsertSummary(conversations_by_user,
               InitSummaryRow(loc[w].max_user_id, loc[w].created_at,
                              loc[w].conversation_id, loc[w].min_user_id))
    /\ loc' = [loc EXCEPT ![w].ret =
                  NewConversationDict(loc[w].conversation_id, loc[w].min_user_id,
                                      loc[w].max_user_id, loc[w].created_at)]
    /\ pc' = [pc EXCEPT ![w] = "done"]
    /\ UNCHANGED <<messages_by_conversation, conversation_participants,
                   now, calls, resp, prev, conn>>

\* get_conversation, lines 214-223: the participants row of the match
RaceGetParticipants(w) ==
    /\ pc[w] = "get"
    /\ LET rows == SelectParticipants(conversation_participants, loc[w].conversation_id)
       IN  IF rows = {}
           THEN /\ loc' = [loc EXCEPT ![w].ret = NoneDict]
                /\ pc' = [pc EXCEPT ![w] = "done"]
           ELSE /\ loc' = [loc EXCEPT ![w].rows = rows]
                /\ pc' = [pc EXCEPT ![w] = "last"]
    /\ UNCHANGED <<store, now, calls, resp, prev, conn>>

\* get_conversation, lines 225-242: its newest message, and the return
RaceGetLastMessage(w) ==
    /\ pc[w] = "last"
    /\ loc' = [loc EXCEPT ![w].ret =
                  ConversationDict(CHOOSE p \in loc[w].rows : TRUE,
                      Limit(SelectMessages(messages_by_conversation,
                                           loc[w].conversation_id), 1))]
    /\ pc' = [pc EXCEPT ![w] = "done"]
    /\ UNCHANGED <<store, now, calls, resp, prev, conn>>

NextRace ==
    \E w \in Workers :
        \/ RaceScan(w)
        \/ RaceLookup(w)
        \/ RaceInsertParticipants(w)
        \/ RaceInsertSummary1(w)
        \/ RaceInsertSummary2(w)
        \/ RaceGetParticipants(w)
        \/ RaceGetLastMessage(w)

SpecRace == Init /\ [][NextRace]_vars

\* ------------------------------------- calls cut short by a failing query
\* send_message run query by query by one worker: create_or_get_conversation as
\* above, then create_message; CassandraClient.execute may raise at any query

\* the positions at which the next thing the call does is a query
AtQuery == {"idle", "loop", "init1", "init2", "get", "last", "done", "msg1", "msg2"}

\* the response send_message makes of any exception: a 500
Failed500 == [op |-> "send_message", status |-> 500, detail |-> "Failed"]

\* a failure that undoes the message row the call had written
QueryFailsRollsBack(w) ==
    /\ pc[w] \in AtQuery
    /\ calls < MaxCalls
    /\ resp = NoCall
    /\ messages_by_conversation' =
           {m \in messages_by_conversation : m.message_id # loc[w].message_id}
    /\ pc' = [pc EXCEPT ![w] = "failed"]
    /\ loc' = [loc EXCEPT ![w].failed_at = pc[w]]
    /\ resp' = Failed500
    /\ UNCHANGED <<conversations_by_user, conversation_participants,
                   now, calls, prev, conn>>

\* execute(), lines 86-88: the query raises; the exception is logged and raised
\* again, no repository operation catches it, and send_message answers 500
QueryFails(w) ==
    /\ pc[w] \in AtQuery
    /\ calls < MaxCalls
    /\ resp = NoCall
    /\ pc' = [pc EXCEPT ![w] = "failed"]
    /\ loc' = [loc EXCEPT ![w].failed_at = pc[w]]
    /\ resp' = Failed500
    /\ UNCHANGED <<store, now, calls, prev, conn>>

\* create_message, lines 24-41: the uuid and the clock are read and the message
\* row is written (send_message reads conversation["id"] first, which raises
\* when create_or_get_conversation returned None)
StepInsertMessage(w) ==
    /\ pc[w] = "done"
    /\ resp = NoCall
    /\ IF loc[w].ret = NoneDict
       THEN /\ pc' = [pc EXCEPT ![w] = "failed"]
            /\ loc' = [loc EXCEPT ![w].failed_at = "done"]
            /\ resp' = Failed500
            /\ UNCHANGED <<store, now>>
       ELSE \E content \in Contents, message_id \in MessageIds \ UsedMessageIds,
               message_timestamp \in Readings(now) :
                /\ messages_by_conversation' =
                       InsertMessage(messages_by_conversation,
                           MessageRow(loc[w].ret.id, message_timestamp, message_id,
                                      loc[w].user1_id, loc[w].user2_id, content))
                /\ now' = message_timestamp
                /\ loc' = [loc EXCEPT ![w].content = content,
                                      ![w].message_id = message_id,
                                      ![w].message_timestamp = message_timestamp]
                /\ pc' = [pc EXCEPT ![w] = "msg1"]
                /\ UNCHANGED <<conversations_by_user, conversation_participants, resp>>
    /\ UNCHANGED <<calls, prev, conn>>

\* create_message, lines 43-56: the sender's summary row
StepInsertSenderSummary(w) ==
    /\ pc[w] = "msg1"
    /\ resp = NoCall
    /\ conversations_by_user' =
           InsertSummary(conversations_by_user,
               SummaryRow(loc[w].user1_id, loc[w].message_timestamp, loc[w].ret.id,
                          loc[w].user2_id, loc[w].content))
    /\ pc' = [pc EXCEPT ![w] = "msg2"]
    /\ UNCHANGED <<messages_by_conversation, conversation_participants,
                   now, calls, resp, prev, conn, loc>>

\* create_message, lines 58-74, and send_message, lines 42-49: the receiver's
\* summary row, and the response
StepInsertReceiverSummary(w) ==
    /\ pc[w] = "msg2"
    /\ resp = NoCall
    /\ conversations_by_user' =
           InsertSummary(conversations_by_user,
               SummaryRow(loc[w].user2_id, loc[w].message_timestamp, loc[w].ret.id,
                          loc[w].user1_id, loc[w].content))
    /\ pc' = [pc EXCEPT ![w] = "sent"]
    /\ resp' = [op |-> "send_message", status |-> 200, created |-> loc[w].created,
                body |-> [id |-> loc[w].message_id, conversation_id |-> loc[w].ret.id,
                          sender_id |-> loc[w].user1_id, receiver_id |-> loc[w].user2_id,
                          content |-> loc[w].content,
                          created_at |-> loc[w].message_timestamp]]
    /\ UNCHANGED <<messages_by_conversation, conversation_participants,
                   now, calls, prev, conn, loc>>

\* the call is over, with a result or with the failure; the worker takes the next
StepReturn(w) ==
    /\ pc[w] \in {"done", "sent", "failed"}
    /\ pc' = [pc EXCEPT ![w] = "idle"]
    /\ loc' = [loc EXCEPT ![w] = NoLocal]
    /\ resp' = NoCall
    /\ calls' = calls + 1
    /\ UNCHANGED <<store, now, prev, conn>>

\* one worker, one call after the other
NextSteps ==
    \/ (calls < MaxCalls /\ resp = NoCall /\ RaceScan(1))
    \/ RaceLookup(1)
    \/ RaceInsertParticipants(1)
    \/ RaceInsertSummary1(1)
    \/ RaceInsertSummary2(1)
    \/ RaceGetParticipants(1)
    \/ RaceGetLastMessage(1)
    \/ StepInsertMessage(1)
    \/ StepInsertSenderSummary(1)
    \/ StepInsertReceiverSummary(1)
    \/ QueryFails(1)
    \/ StepReturn(1)

SpecSteps == Init /\ [][NextSteps]_vars

\* ------------------------------------------- listing over any table contents
\* the tables are plain rows with no constraint between them, and
\* get_user_conversations guards against a summary without participants row:
\* it is run here on every store made of a few rows the schema admits
ListedTimes == {0, 1}
ListedConversations == {0, 1}

ListedSummaries ==
    {[user_id |-> u, last_message_timestamp |-> t, conversation_id |-> c,
      other_user_id |-> (u % NumUsers) + 1, last_message_content |-> "hi"] :
        u \in Users, t \in ListedTimes, c \in ListedConversations}

ListedParticipants ==
    {[conversation_id |-> c, user1_id |-> 1, user2_id |-> NumUsers, created_at |-> 0] :
        c \in ListedConversations}

InitListing ==
    /\ messages_by_conversation = {}
    /\ conversations_by_user \in SUBSET ListedSummaries
    /\ conversation_participants \in SUBSET ListedParticipants
    /\ now = 0
    /\ calls = 0
    /\ resp = NoCall
    /\ prev = NoCall
    /\ session = "open"
    /\ attempt = 0
    /\ boot = "serving"
    /\ log = <<"info", "info">>
    /\ pc = Idle
    /\ loc = NoLocals

NextListing ==
    \/ GetUserConversations
    \/ Return

SpecListing == InitListing /\ [][NextListing]_vars

\* ------------------------------------------------- CassandraClient.connect
\* the process as CassandraClient() is constructed: nothing connected yet
InitConnect ==
    /\ messages_by_conversation = {}
    /\ conversations_by_user = {}
    /\ conversation_participants = {}
    /\ now = 0
    /\ calls = 0
    /\ resp = NoCall
    /\ prev = NoCall
    /\ session = "none"
    /\ attempt = 0
    /\ boot = "trying"
    /\ log = <<>>
    /\ pc = Idle
    /\ loc = NoLocals

\* a loop that allows one attempt too many
ExhaustedOneLate(i) == i >= Retries

\* "for i in range(retries)" has run out after attempt i
Exhausted(i) == i + 1 >= Retries

\* lines 49-53: the attempt succeeds; the session is kept and connect() returns
ConnectSucceeds ==
    /\ boot = "trying"
    /\ session' = "open"
    /\ log' = Append(log, "info")
    /\ boot' = "connected"
    /\ UNCHANGED <<store, now, calls, resp, prev, attempt, workers>>

\* lines 54-55: NoHostAvailable is caught and logged as a warning
ConnectNoHost ==
    /\ boot = "trying"
    /\ log' = Append(log, "warning")
    /\ boot' = "sleeping"
    /\ UNCHANGED <<store, now, calls, resp, prev, session, attempt, workers>>

\* lines 57-58: any other exception is caught and logged as an error
ConnectError ==
    /\ boot = "trying"
    /\ log' = Append(log, "error")
    /\ boot' = "sleeping"
    /\ UNCHANGED <<store, now, calls, resp, prev, session, attempt, workers>>

\* lines 56, 59, 47, 60: the sleep ends; the loop goes on to its next attempt,
\* or has none left and connect() raises
ConnectSleepEnds ==
    /\ boot = "sleeping"
    /\ attempt' = attempt + 1
    /\ boot' = IF Exhausted(attempt) THEN "failed" ELSE "trying"
    /\ UNCHANGED <<store, now, calls, resp, prev, session, log, workers>>

\* main.py startup_event: the client exists and has its session; the service starts
StartupEvent ==
    /\ boot = "connected"
    /\ session = "open"
    /\ log' = Append(log, "info")
    /\ boot' = "serving"
    /\ UNCHANGED <<store, now, calls, resp, prev, session, attempt, workers>>

NextConnect ==
    \/ ConnectSucceeds
    \/ ConnectNoHost
    \/ ConnectError
    \/ ConnectSleepEnds
    \/ StartupEvent

\* connect() is straight-line code of the starting process: every step it can
\* take, it takes
SpecConnect == InitConnect /\ [][NextConnect]_vars /\ WF_vars(NextConnect)

\* ===================================================================
\* Properties
\* ===================================================================
CanonicalPair(a, b) == <<Min2(a, b), Max2(a, b)>>
IsCog(r) == r.op = "create_or_get_conversation"
SamePair(r1, r2) ==
    CanonicalPair(r1.user1_id, r1.user2_id) = CanonicalPair(r2.user1_id, r2.user2_id)

\* C1, state part: of two consecutive create_or_get_conversation calls for one
\* pair of different users, in either argument order, the second returns the
\* conversation id the first returned.
C1_SecondCallSameId ==
    (IsCog(resp) /\ IsCog(prev) /\ SamePair(resp, prev) /\ resp.user1_id # resp.user2_id)
        => resp.ret.id = prev.ret.id

\* C1, step part: that second call leaves conversation_participants as it was.
C1_SecondCallInsertsNothing ==
    (IsCog(prev) /\ resp = NoCall /\ IsCog(resp') /\ SamePair(resp', prev)
        /\ prev.user1_id # prev.user2_id)
        => conversation_participants' = conversation_participants

\* C1: two consecutive, non-overlapping create_or_get_conversation calls for the
\* same pair a # b, as (a,b),(a,b) or (a,b),(b,a), return the same conversation
\* id, and the second inserts no conversation_participants row.
C1_IdempotentCreateOrGet ==
    [](C1_SecondCallSameId) /\ [][C1_SecondCallInsertsNothing]_vars

\* C1 witness: a call for (b,a) made right after the call for (a,b) that created
\* the conversation.
C1_Witness ==
    /\ IsCog(resp) /\ IsCog(prev)
    /\ prev.created /\ ~resp.created
    /\ prev.user1_id # prev.user2_id
    /\ resp.user1_id = prev.user2_id /\ resp.user2_id = prev.user1_id

\* no row of any table is about a user talking to themselves
TwoUsersEverywhere ==
    /\ \A p \in conversation_participants : p.user1_id # p.user2_id
    /\ \A r \in conversations_by_user : r.user_id # r.other_user_id
    /\ \A m \in messages_by_conversation : m.sender_id # m.receiver_id

SummaryRowsOf(user_id, conversation_id) ==
    {r \in conversations_by_user :
        r.user_id = user_id /\ r.conversation_id = conversation_id}

\* C2: conversations_by_user holds exactly one row per (participant,
\* conversation), and a new message updates that row instead of adding one:
\* right after send_message between two users, each of the two has one summary
\* row of the message's conversation and no more (stated for the stores in which
\* no user talks to themselves).
C2_OneSummaryRowPerParticipant ==
    (resp.op = "send_message" /\ TwoUsersEverywhere) =>
        \A u \in {resp.body.sender_id, resp.body.receiver_id} :
            Cardinality(SummaryRowsOf(u, resp.body.conversation_id)) = 1

\* C3 as claimed: every conversation_participants row has user1_id < user2_id,
\* whatever pair create_or_get_conversation was called with.
C3_StrictOrderAlways ==
    \A p \in conversation_participants : p.user1_id < p.user2_id

\* C3, amended: every conversation_participants row has user1_id <= user2_id;
\* the row of the conversation a create_or_get_conversation call returns holds
\* the smaller of the call's two ids as user1_id and the larger as user2_id, so
\* user1_id < user2_id whenever the two ids differ.
C3_CanonicalOrder ==
    /\ \A p \in conversation_participants : p.user1_id <= p.user2_id
    /\ IsCog(resp) =>
        \A p \in conversation_participants :
            p.conversation_id = resp.ret.id =>
                /\ p.user1_id = Min2(resp.user1_id, resp.user2_id)
                /\ p.user2_id = Max2(resp.user1_id, resp.user2_id)
                /\ (resp.user1_id # resp.user2_id => p.user1_id < p.user2_id)

\* C3 witness: a call with the larger id first has created a conversation.
C3_Witness ==
    /\ IsCog(resp) /\ resp.created
    /\ resp.user1_id > resp.user2_id
    /\ \E p \in conversation_participants : p.conversation_id = resp.ret.id

\* C4: right after send_message(s, r, c) with s # r (and no user talking to
\* themselves anywhere in the store), the conversation it
\* returns has participants (min(s,r), max(s,r)), get_conversation of it returns
\* last_message_content = c, and get_user_conversations(s, 1, 20) lists it.
C4_SendThenRead ==
    (resp.op = "send_message" /\ TwoUsersEverywhere) =>
        LET s == resp.body.sender_id
            r == resp.body.receiver_id
            id == resp.body.conversation_id
            conversation == get_conversation(conversation_participants,
                                messages_by_conversation, id)
            listed == get_user_conversations(conversations_by_user,
                          conversation_participants, s, 1, DefaultLimit).data
        IN  /\ conversation # NoneDict
            /\ conversation.user1_id = Min2(s, r)
            /\ conversation.user2_id = Max2(s, r)
            /\ conversation.last_message_content = resp.body.content
            /\ \E i \in 1..Len(listed) : listed[i].id = id

MessagesOf(conversation_id) ==
    {m \in messages_by_conversation : m.conversation_id = conversation_id}

\* d1 is listed before d2: later timestamp first, equal timestamps by ascending id
NewerFirst(d1, d2) ==
    \/ d1.created_at > d2.created_at
    \/ d1.created_at = d2.created_at /\ d1.id < d2.id

IsPageOfMessages(r) ==
    r.op = "get_conversation_messages" /\ r.response.status = 200

\* C6: get_conversation_messages(conversation_id, page=1, limit=L) returns
\* exactly min(N, L) items for a conversation of N messages, ordered by message
\* timestamp descending, equal timestamps by message id ascending.
C6_FirstPageNewestFirst ==
    (IsPageOfMessages(resp) /\ resp.page = 1) =>
        LET data == resp.response.body.data
            N == Cardinality(MessagesOf(resp.conversation_id))
        IN  /\ Len(data) = Min2(N, resp.limit)
            /\ \A i \in 1..Len(data) :
                 /\ \E m \in MessagesOf(resp.conversation_id) : data[i] = MessageDict(m)
                 /\ \A j \in 1..Len(data) : i < j => NewerFirst(data[i], data[j])
            \* nothing left out is newer than what is returned
            /\ \A m \in MessagesOf(resp.conversation_id) :
                 (\A i \in 1..Len(data) : data[i].id # m.message_id) =>
                     \A i \in 1..Len(data) : NewerFirst(data[i], MessageDict(m))

\* C6 witness: a first page of two messages with the same timestamp.
C6_Witness ==
    /\ IsPageOfMessages(resp) /\ resp.page = 1
    /\ Len(resp.response.body.data) = 2
    /\ resp.response.body.data[1].created_at = resp.response.body.data[2].created_at

\* the conversation's messages, newest first, as get_conversation_messages lists them
FullSequence(conversation_id) ==
    MessageDicts(SelectMessages(messages_by_conversation, conversation_id))

\* C7: the data of get_conversation_messages(conversation_id, page, limit) are
\* the items at zero-based offsets [(page-1)*limit, page*limit) of the
\* conversation's full newest-first sequence, fewer or none when it is shorter.
C7_PageWindow ==
    IsPageOfMessages(resp) =>
        LET data == resp.response.body.data
            full == FullSequence(resp.conversation_id)
            offset == (resp.page - 1) * resp.limit
            rest == IF Len(full) > offset THEN Len(full) - offset ELSE 0
        IN  /\ Len(data) = Min2(resp.limit, rest)
            /\ \A i \in 1..Len(data) : data[i] = full[offset + i]

\* C7 witness: a second page that holds the second of two messages.
C7_Witness ==
    /\ IsPageOfMessages(resp) /\ resp.page = 2 /\ resp.limit = 1
    /\ Len(resp.response.body.data) = 1
    /\ Cardinality(MessagesOf(resp.conversation_id)) = 2

\* C8: every message get_messages_before_timestamp(conversation_id, T, page,
\* limit) returns is a message of that conversation with message_timestamp < T.
C8_OnlyEarlierMessages ==
    (resp.op = "get_messages_before_timestamp" /\ resp.response.status = 200) =>
        LET data == resp.response.body.data
        IN  \A i \in 1..Len(data) :
              /\ data[i].conversation_id = resp.conversation_id
              /\ data[i].created_at < resp.before_timestamp
              /\ \E m \in MessagesOf(resp.conversation_id) : data[i] = MessageDict(m)

\* C8 witness: a message is returned while another of the conversation, sent at
\* T or later, is held back.
C8_Witness ==
    /\ resp.op = "get_messages_before_timestamp" /\ resp.response.status = 200
    /\ Len(resp.response.body.data) >= 1
    /\ \E m \in MessagesOf(resp.conversation_id) :
          m.message_timestamp >= resp.before_timestamp

HasConversation(conversation_id) ==
    \E p \in conversation_participants : p.conversation_id = conversation_id

\* C9, state part: for an id without a conversation_participants row,
\* get_conversation returns the none value and the handler answers 404.
C9_AbsentIs404 ==
    (resp.op = "get_conversation" /\ ~HasConversation(resp.conversation_id)) =>
        /\ get_conversation(conversation_participants, messages_by_conversation,
                            resp.conversation_id) = NoneDict
        /\ resp.response.status = 404

\* C9, step part: the lookup changes no table.
C9_LookupWritesNothing ==
    (resp = NoCall /\ resp'.op = "get_conversation") => UNCHANGED store

\* C9: get_conversation of an id with no conversation_participants row returns
\* the none value without changing any table, and the handler turns it into a
\* 404 response, not a 500.
C9_AbsentConversationNotFound ==
    [](C9_AbsentIs404) /\ [][C9_LookupWritesNothing]_vars

\* C9 witness: a 404 for an id that does not exist while another conversation does.
C9_Witness ==
    /\ resp.op = "get_conversation"
    /\ resp.response.status = 404
    /\ conversation_participants # {}

\* both workers have returned from create_or_get_conversation for one pair of
\* two users, and each had scanned before any participants row of the pair existed
BothRaced ==
    /\ pc[1] = "done" /\ pc[2] = "done"
    /\ loc[1].min_user_id = loc[2].min_user_id
    /\ loc[1].max_user_id = loc[2].max_user_id
    /\ loc[1].min_user_id # loc[1].max_user_id
    /\ ~loc[1].pair_seen /\ ~loc[2].pair_seen

ConversationsOfPair(min_user_id, max_user_id) ==
    {p \in conversation_participants :
        p.user1_id = min_user_id /\ p.user2_id = max_user_id}

\* C5: when two create_or_get_conversation calls for one pair both scan before
\* either inserts, both take the creation branch, and the pair ends up with one
\* conversation_participants row per conversation id the two drew from the
\* clock: two distinct conversations whenever the two ids differ.
C5_RaceCreatesBoth ==
    BothRaced =>
        /\ loc[1].created /\ loc[2].created
        /\ Cardinality(ConversationsOfPair(loc[1].min_user_id, loc[1].max_user_id))
             = Cardinality({loc[1].conversation_id, loc[2].conversation_id})
        /\ \A w \in Workers :
             \E p \in ConversationsOfPair(loc[1].min_user_id, loc[1].max_user_id) :
                 p.conversation_id = loc[w].ret.id

\* C5 witness: after such a race the pair has two conversations with distinct ids.
C5_Witness ==
    /\ BothRaced
    /\ \E p, q \in ConversationsOfPair(loc[1].min_user_id, loc[1].max_user_id) :
          p.conversation_id # q.conversation_id

ConnectOver == boot \in {"connected", "serving", "failed"}

\* C10, state part: no more than the fixed number of attempts; a connect() that
\* returned left a session and made no attempt after its first success; a
\* connect() that raised had failed in every one of its attempts.
C10_AttemptsBounded ==
    /\ attempt <= Retries
    /\ Len(SelectSeq(log, LAMBDA l : l \in {"warning", "error"})) <= Retries
    /\ boot \in {"connected", "serving"} =>
          /\ session = "open"
          /\ attempt < Retries
          /\ Len(log) >= attempt + 1
          /\ log[attempt + 1] = "info"
          /\ \A k \in 1..attempt : log[k] \in {"warning", "error"}
    /\ boot = "failed" =>
          /\ session = "none"
          /\ attempt = Retries
          /\ Len(log) = Retries
          /\ \A k \in 1..Len(log) : log[k] \in {"warning", "error"}

\* C10, step part: once connect() has returned or raised, it makes no attempt more.
C10_NoAttemptAfterTheEnd ==
    ConnectOver => (attempt' = attempt /\ session' = session /\ ConnectOver')

\* C10: connect() always terminates, after at most Retries attempts: it stops at
\* the first attempt that succeeds, leaving a session, and when every attempt
\* has failed it raises instead of trying again.
C10_ConnectTerminates ==
    /\ <>ConnectOver
    /\ []C10_AttemptsBounded
    /\ [][C10_NoAttemptAfterTheEnd]_vars

\* C10 witness: connect() has raised after ten failed attempts.
C10_Witness ==
    /\ boot = "failed"
    /\ attempt = Retries
    /\ Len(log) = Retries

\* the rows the failed call of worker 1 had written before the query that
\* failed, a later write of the call to the same key standing for the earlier one
WrittenBeforeFailure ==
    LET l == loc[1]
        at == l.failed_at
        participants == {ParticipantsRow(l.conversation_id, l.min_user_id,
                                         l.max_user_id, l.created_at)}
        summary1 == InitSummaryRow(l.min_user_id, l.created_at,
                                    l.conversation_id, l.max_user_id)
        summary2 == InitSummaryRow(l.max_user_id, l.created_at,
                                    l.conversation_id, l.min_user_id)
        message == {MessageRow(l.ret.id, l.message_timestamp, l.message_id,
                               l.user1_id, l.user2_id, l.content)}
        sender == SummaryRow(l.user1_id, l.message_timestamp, l.ret.id,
                             l.user2_id, l.content)
        after1 == IF l.created /\ at \in {"init2", "done", "msg1", "msg2"}
                  THEN InsertSummary({}, summary1) ELSE {}
        after2 == IF l.created /\ at \in {"done", "msg1", "msg2"}
                  THEN InsertSummary(after1, summary2) ELSE after1
        after3 == IF at = "msg2" THEN InsertSummary(after2, sender) ELSE after2
    IN  [cp |-> IF l.created THEN participants ELSE {},
         cbu |-> after3,
         mbc |-> IF at \in {"msg1", "msg2"} THEN message ELSE {}]

\* C11, state part: after the failure the caller has a 500, and every row the
\* call wrote before the failing query is in the store.
C11_CompletedWritesStay ==
    pc[1] = "failed" =>
        /\ resp = Failed500
        /\ WrittenBeforeFailure.cp \subseteq conversation_participants
        /\ WrittenBeforeFailure.cbu \subseteq conversations_by_user
        /\ WrittenBeforeFailure.mbc \subseteq messages_by_conversation

\* C11, step part: the failing query changes no table, and a failed call does
\* nothing more: it writes nothing, does not go on and does not start again.
C11_NothingAfterTheFailure ==
    /\ (pc[1] # "failed" /\ pc'[1] = "failed") => store' = store
    /\ pc[1] = "failed" => (store' = store /\ pc'[1] \in {"failed", "idle"})

\* C11: a query failure at any step of create_message or of the creation branch
\* of create_or_get_conversation reaches the caller, no later write of the
\* operation is executed, and the writes completed before it stay in the store.
C11_FailureLeavesCompletedWrites ==
    []C11_CompletedWritesStay /\ [][C11_NothingAfterTheFailure]_vars

\* C11 witness: create_message failed at its last write: the message row and the
\* sender's summary row are in the store, the receiver's summary row is not.
C11_Witness ==
    /\ pc[1] = "failed"
    /\ loc[1].failed_at = "msg2"
    /\ loc[1].user1_id # loc[1].user2_id
    /\ \E m \in messages_by_conversation : m.message_id = loc[1].message_id
    /\ \E r \in conversations_by_user :
          /\ r.user_id = loc[1].user1_id
          /\ r.last_message_timestamp = loc[1].message_timestamp
          /\ r.last_message_content = loc[1].content
    /\ ~ \E r \in conversations_by_user :
          /\ r.user_id = loc[1].user2_id
          /\ r.conversation_id = loc[1].ret.id
          /\ r.last_message_content = loc[1].content

\* C12: the total of get_conversation_messages is the number of rows fetched,
\* min(N, page*limit) for a conversation of N messages: never more than
\* page*limit, and not the number of messages of the conversation.
C12_TotalIsRowsFetched ==
    IsPageOfMessages(resp) =>
        LET N == Cardinality(MessagesOf(resp.conversation_id))
            total == resp.response.body.total
        IN  /\ total = Min2(N, resp.page * resp.limit)
            /\ total <= resp.page * resp.limit

\* C12 witness: a total smaller than the number of messages of the conversation.
C12_Witness ==
    /\ IsPageOfMessages(resp)
    /\ resp.response.body.total = resp.page * resp.limit
    /\ resp.response.body.total < Cardinality(MessagesOf(resp.conversation_id))

IsPageBefore(r) ==
    r.op = "get_messages_before_timestamp" /\ r.response.status = 200

\* C13: the total of get_messages_before_timestamp(conversation_id, T, page,
\* limit) is the exact number of messages of the conversation with
\* message_timestamp < T, whatever page and limit are.
C13_TotalIsExactCount ==
    IsPageBefore(resp) =>
        resp.response.body.total =
            Cardinality({m \in MessagesOf(resp.conversation_id) :
                            m.message_timestamp < resp.before_timestamp})

\* C13 witness: a total larger than page*limit.
C13_Witness ==
    /\ IsPageBefore(resp)
    /\ resp.response.body.total > resp.page * resp.limit

\* the three rows the create_message call of worker 1 is to write
MessageRowOfCall ==
    [conversation_id |-> loc[1].ret.id, message_timestamp |-> loc[1].message_timestamp,
     message_id |-> loc[1].message_id, sender_id |-> loc[1].user1_id,
     receiver_id |-> loc[1].user2_id, content |-> loc[1].content]

SenderRowOfCall ==
    [user_id |-> loc[1].user1_id, last_message_timestamp |-> loc[1].message_timestamp,
     conversation_id |-> loc[1].ret.id, other_user_id |-> loc[1].user2_id,
     last_message_content |-> loc[1].content]

ReceiverRowOfCall ==
    [user_id |-> loc[1].user2_id, last_message_timestamp |-> loc[1].message_timestamp,
     conversation_id |-> loc[1].ret.id, other_user_id |-> loc[1].user1_id,
     last_message_content |-> loc[1].content]

SameSummaryKey(r1, r2) ==
    /\ r1.user_id = r2.user_id
    /\ r1.last_message_timestamp = r2.last_message_timestamp
    /\ r1.conversation_id = r2.conversation_id

\* the step writes the one summary row and touches no row of another key
WritesOnlySummary(row) ==
    /\ row \in conversations_by_user'
    /\ \A r \in conversations_by_user' : r = row \/ r \in conversations_by_user
    /\ \A r \in conversations_by_user :
         r \in conversations_by_user' \/ SameSummaryKey(r, row)
    /\ messages_by_conversation' = messages_by_conversation
    /\ conversation_participants' = conversation_participants

\* C14, state part: when create_message has returned, its three rows are in the
\* store, all with the one timestamp it read.
C14_ThreeRowsWritten ==
    pc[1] = "sent" =>
        /\ MessageRowOfCall \in messages_by_conversation
        /\ SenderRowOfCall \in conversations_by_user
        /\ ReceiverRowOfCall \in conversations_by_user
        /\ resp.body.created_at = loc[1].message_timestamp

\* C14, step part: each of the three writes of create_message writes its row
\* and nothing else: the message row is new, with an id no stored message has
\* and a timestamp read from the clock then, and every message row there was
\* stays as it was; conversation_participants is never written.
C14_EachWriteWritesOneRow ==
    /\ (pc[1] = "done" /\ pc'[1] = "msg1") =>
          /\ \A m \in messages_by_conversation : m.message_id # loc'[1].message_id
          /\ loc'[1].message_timestamp \in Readings(now)
          /\ messages_by_conversation' =
                 messages_by_conversation \cup
                     {[conversation_id |-> loc[1].ret.id,
                       message_timestamp |-> loc'[1].message_timestamp,
                       message_id |-> loc'[1].message_id,
                       sender_id |-> loc[1].user1_id,
                       receiver_id |-> loc[1].user2_id,
                       content |-> loc'[1].content]}
          /\ conversations_by_user' = conversations_by_user
          /\ conversation_participants' = conversation_participants
    /\ (pc[1] = "msg1" /\ pc'[1] = "msg2") => WritesOnlySummary(SenderRowOfCall)
    /\ (pc[1] = "msg2" /\ pc'[1] = "sent") => WritesOnlySummary(ReceiverRowOfCall)
    /\ (pc[1] = "sent" /\ pc'[1] # "sent") => store' = store

\* C14: a successful create_message writes three rows with one new timestamp:
\* the message row under a fresh id, the summary row of the sender with the
\* receiver as other user and the summary row of the receiver with the sender
\* as other user, both holding the content; it leaves conversation_participants
\* and every message row there was unchanged.
C14_CreateMessageWritesThreeRows ==
    []C14_ThreeRowsWritten /\ [][C14_EachWriteWritesOneRow]_vars

\* C14 witness: a second message between two users has been written next to the first.
C14_Witness ==
    /\ pc[1] = "sent"
    /\ loc[1].user1_id # loc[1].user2_id
    /\ Cardinality(messages_by_conversation) = 2
    /\ SenderRowOfCall \in conversations_by_user
    /\ ReceiverRowOfCall \in conversations_by_user
    /\ SenderRowOfCall # ReceiverRowOfCall

IsListing(r) == r.op = "get_user_conversations" /\ r.response.status = 200

\* the user's summary rows in the table's order
SummariesInOrder(user_id) == SelectSummaries(conversations_by_user, user_id)

\* how many of them a call with this page and limit fetches
Fetched(r) == Min2(r.page * r.limit, Len(SummariesInOrder(r.user_id)))

\* the positions of the fetched rows whose conversation has a participants row
ResolvedPositions(r) ==
    {i \in 1..Fetched(r) :
        \E p \in conversation_participants :
            p.conversation_id = SummariesInOrder(r.user_id)[i].conversation_id}

\* the k-th of a set of positions
NthPosition(S, k) == CHOOSE i \in S : Cardinality({j \in S : j < i}) = k - 1

\* C15: get_user_conversations(user_id, page, limit) fetches at most page*limit
\* summary rows of the user, leaves out each fetched row whose conversation has
\* no conversation_participants row, returns as total the number of fetched rows
\* that resolved, and as data the window [(page-1)*limit, page*limit) of the
\* resolved rows in summary order.
C15_ListingResolvesAndWindows ==
    IsListing(resp) =>
        LET body == resp.response.body
            all == SummariesInOrder(resp.user_id)
            resolved == ResolvedPositions(resp)
            offset == (resp.page - 1) * resp.limit
            rest == IF body.total > offset THEN body.total - offset ELSE 0
        IN  /\ Fetched(resp) <= resp.page * resp.limit
            /\ body.total = Cardinality(resolved)
            /\ body.total <= resp.page * resp.limit
            /\ Len(body.data) = Min2(resp.limit, rest)
            /\ \A k \in 1..Len(body.data) :
                 LET row == all[NthPosition(resolved, offset + k)]
                 IN  /\ body.data[k].id = row.conversation_id
                     /\ body.data[k].last_message_at = row.last_message_timestamp
                     /\ body.data[k].last_message_content = row.last_message_content
                     /\ \E p \in conversation_participants :
                          /\ p.conversation_id = body.data[k].id
                          /\ p.user1_id = body.data[k].user1_id
                          /\ p.user2_id = body.data[k].user2_id

\* C15 witness: a listing that left out a fetched row without participants row
\* and returned another, with rows of the user left unfetched.
C15_Witness ==
    /\ IsListing(resp)
    /\ Cardinality(ResolvedPositions(resp)) < Fetched(resp)
    /\ Fetched(resp) < Len(SummariesInOrder(resp.user_id))
    /\ Len(resp.response.body.data) >= 1

\* every call that wrote to the store was a send_message
OnlySendMessageWrote == Cardinality(messages_by_conversation) = calls

\* C16: in the stores built by send_message calls, every message row stored
\* under a conversation id has the two users of that conversation's
\* conversation_participants row as sender and receiver, and the summary rows of
\* one conversation id are all about one pair of users: two different pairs
\* never share a conversation id.
C16_ConversationIsolation ==
    OnlySendMessageWrote =>
        /\ \A m \in messages_by_conversation :
             \E p \in conversation_participants :
                /\ p.conversation_id = m.conversation_id
                /\ {m.sender_id, m.receiver_id} = {p.user1_id, p.user2_id}
        /\ \A r1, r2 \in conversations_by_user :
             r1.conversation_id = r2.conversation_id =>
                {r1.user_id, r1.other_user_id} = {r2.user_id, r2.other_user_id}

\* C17: once create_or_get_conversation has returned an id for a pair of two
\* users, a later create_or_get_conversation for that pair returns the same id,
\* whatever was created and sent for other pairs in between.
C17_StableConversationId ==
    (IsCog(resp) /\ IsCog(prev) /\ SamePair(resp, prev)
        /\ resp.user1_id # resp.user2_id) => resp.ret.id = prev.ret.id

\* the newest entry of the conversation in the user's listing, as a set of at
\* most one element
NewestListed(user_id, conversation_id) ==
    LET data == get_user_conversations(conversations_by_user, conversation_participants,
                                       user_id, 1, DefaultLimit).data
        at == {i \in 1..Len(data) : data[i].id = conversation_id}
    IN  IF at = {} THEN {}
        ELSE {data[CHOOSE i \in at : \A j \in at : i <= j]}

\* C18: after completed send_message calls between different users, for every
\* conversation and each of its participants, the newest entry of the
\* conversation in get_user_conversations of the participant has the
\* last_message_content and last_message_at that get_conversation returns for
\* it, also when two messages of the conversation have the same timestamp.
C18_ReadPathsAgree ==
    (resp = NoCall /\ OnlySendMessageWrote /\ TwoUsersEverywhere) =>
        \A p \in conversation_participants : \A u \in {p.user1_id, p.user2_id} :
            \A entry \in NewestListed(u, p.conversation_id) :
                LET conversation == get_conversation(conversation_participants,
                                        messages_by_conversation, p.conversation_id)
                IN  /\ entry.last_message_content = conversation.last_message_content
                    /\ entry.last_message_at = conversation.last_message_at

\* C19: every conversations_by_user row refers to a conversation id that has a
\* conversation_participants row, in every state send_message and
\* create_or_get_conversation calls reach, the calls cut short by a failing
\* query at any step included.
C19_NoOrphanedSummaries ==
    \A r \in conversations_by_user :
        \E p \in conversation_participants : p.conversation_id = r.conversation_id

\* C19 witness: a creation cut short between its two summary rows: the first is
\* in the store, the second is not, and the participants row is there.
C19_Witness ==
    /\ pc[1] = "failed"
    /\ loc[1].failed_at = "init2"
    /\ loc[1].min_user_id # loc[1].max_user_id
    /\ \E r \in conversations_by_user :
          r.user_id = loc[1].min_user_id /\ r.conversation_id = loc[1].conversation_id
    /\ ~ \E r \in conversations_by_user :
          r.user_id = loc[1].max_user_id /\ r.conversation_id = loc[1].conversation_id
    /\ \E p \in conversation_participants : p.conversation_id = loc[1].conversation_id

====
